---------------------------- MODULE Spec2Model ----------------------------
(***************************************************************************)
(* Partition Visualizer (src/vis_partition.py): the parser                 *)
(* (string_to_encoding, substring_to_group), the text layout engine        *)
(* (group_to_lines, encoding_to_text, join_lines), the LaTeX renderer      *)
(* (partition_to_latex, encoding_to_latex) and the driver                  *)
(* (display_partitions, main's loop over the units of a file).             *)
(*                                                                         *)
(* Python strings are TLA+ strings; a Python list is a sequence.  A group  *)
(* is the list the code builds, <<sign, lead, partition, ...>>, so that    *)
(* group[0], group[1], group[2:] of the code are group[1], group[2] and    *)
(* SubSeq(group, 3, Len(group)) here.  A call that may raise returns a     *)
(* record [raised |-> BOOLEAN, value |-> ...].                             *)
(***************************************************************************)
EXTENDS Integers, Sequences, FiniteSets, TLC

VARIABLES
    pc,             \* position of the specification's process
    data,           \* display_partitions / string_to_encoding: the input string
    other,          \* a second input string, related to data
    encoding,       \* result of string_to_encoding(data)
    otherEncoding,  \* result of string_to_encoding(other)
    substring,      \* substring_to_group: the group body
    permuted,       \* the same body with its labeled partitions permuted
    parsed,         \* result of substring_to_group(substring)
    parsedPermuted, \* result of substring_to_group(permuted)
    group,          \* group_to_lines: group
    idx,            \* group_to_lines: idx; join_lines: idx
    sep,            \* separator between partitions
    tall,           \* full-height parentheses
    lines,          \* result of group_to_lines
    as_latex,       \* display_partitions: as_latex
    latex_environment, \* display_partitions: latex_environment
    output,         \* rendered string (encoding_to_text, encoding_to_latex, join_lines)
    line_groups,    \* join_lines: line_groups
    max_lines,      \* join_lines: max_lines
    max_width,      \* join_lines: max_width (None when not wrapping)
    chunk,          \* join_lines: chunk
    chunk_strings,  \* join_lines: chunk_strings
    emitted,        \* history: the chunks appended to chunk_strings, as block indices
    units,          \* main: the units of the input file
    unit,           \* main: index of the next unit to process
    verbose,        \* --verbose
    reports,        \* history: what display_partitions did on each unit
    crashed         \* main: an exception left display_partitions

vars == <<pc, data, other, encoding, otherEncoding, substring, permuted, parsed,
          parsedPermuted, group, idx, sep, tall, lines, as_latex,
          latex_environment, output,
          line_groups, max_lines, max_width, chunk, chunk_strings, emitted,
          units, unit, verbose, reports, crashed>>

parseVars == <<data, other, encoding, otherEncoding>>
groupVars == <<substring, permuted, parsed, parsedPermuted>>
linesVars == <<group, lines>>
joinVars  == <<line_groups, max_lines, chunk, chunk_strings, emitted>>
mainVars  == <<units, unit, verbose, reports, crashed>>

\* Python's None for max_width: no integer the code passes as a width
None == -1

---------------------------------------------------------------------------
(* Python string primitives                                                *)

Ch(s, i) == SubSeq(s, i, i)

Min(S) == CHOOSE x \in S : \A y \in S : x <= y
Max(S) == CHOOSE x \in S : \A y \in S : x >= y

RECURSIVE SumSeq(_)
SumSeq(q) == IF q = <<>> THEN 0 ELSE Head(q) + SumSeq(Tail(q))

\* max() of a non-empty list of integers
MaxSeq(q) == Max({q[i] : i \in 1..Len(q)})

Digits == "0123456789"
IsDigit(c) == \E d \in 1..10 : Ch(Digits, d) = c
DigitVal(c) == (CHOOSE d \in 1..10 : Ch(Digits, d) = c) - 1

\* str.strip() and int() skip these; "." of a regular expression matches
\* every character but the line break
IsSpace(c) == c \in {" ", "\n"}

strip(s) ==
    LET keep == {i \in 1..Len(s) : ~IsSpace(Ch(s, i))}
    IN  IF keep = {} THEN "" ELSE SubSeq(s, Min(keep), Max(keep))

startswith(s, prefix) ==
    Len(prefix) <= Len(s) /\ SubSeq(s, 1, Len(prefix)) = prefix

endswith(s, suffix) ==
    Len(suffix) <= Len(s) /\ SubSeq(s, Len(s) - Len(suffix) + 1, Len(s)) = suffix

removeprefix(s, prefix) ==
    IF startswith(s, prefix) THEN SubSeq(s, Len(prefix) + 1, Len(s)) ELSE s

removesuffix(s, suffix) ==
    IF endswith(s, suffix) THEN SubSeq(s, 1, Len(s) - Len(suffix)) ELSE s

\* "x" * n
RECURSIVE Rep(_, _)
Rep(s, n) == IF n <= 0 THEN "" ELSE s \o Rep(s, n - 1)

\* sep.join(strs)
RECURSIVE join(_, _)
join(separator, strs) ==
    IF strs = <<>> THEN ""
    ELSE IF Len(strs) = 1 THEN strs[1]
    ELSE strs[1] \o separator \o join(separator, Tail(strs))

\* s.split(c) for a one-character c
RECURSIVE split(_, _)
split(s, c) ==
    LET hits == {i \in 1..Len(s) : Ch(s, i) = c}
    IN  IF hits = {} THEN <<s>>
        ELSE <<SubSeq(s, 1, Min(hits) - 1)>>
             \o split(SubSeq(s, Min(hits) + 1, Len(s)), c)

\* int(s): optional surrounding whitespace, then decimal digits only
IntRaises(s) ==
    LET t == strip(s)
    IN  t = "" \/ \E i \in 1..Len(t) : ~IsDigit(Ch(t, i))

RECURSIVE DecimalValue(_)
DecimalValue(t) ==
    IF t = "" THEN 0
    ELSE 10 * DecimalValue(SubSeq(t, 1, Len(t) - 1)) + DigitVal(Ch(t, Len(t)))

int(s) == DecimalValue(strip(s))

---------------------------------------------------------------------------
(* Parser                                                                  *)

\* re.split(r"(\+|-)", data): the texts between the signs, the signs kept
RECURSIVE SplitSigns(_)
SplitSigns(s) ==
    LET hits == {i \in 1..Len(s) : Ch(s, i) \in {"+", "-"}}
    IN  IF hits = {} THEN <<s>>
        ELSE <<SubSeq(s, 1, Min(hits) - 1), Ch(s, Min(hits))>>
             \o SplitSigns(SubSeq(s, Min(hits) + 1, Len(s)))

\* re.split(r"(S.*)", substring, maxsplit=1): <<lead, from the first S to the
\* end of its line, the rest>>, or the whole string alone when it holds no S
SplitLead(s) ==
    LET ss == {i \in 1..Len(s) : Ch(s, i) = "S"}
    IN  IF ss = {} THEN <<s>>
        ELSE LET p == Min(ss)
                 nl == {i \in p..Len(s) : Ch(s, i) = "\n"}
                 e == IF nl = {} THEN Len(s) ELSE Min(nl) - 1
             IN  <<SubSeq(s, 1, p - 1), SubSeq(s, p, e), SubSeq(s, e + 1, Len(s))>>

\* start of the first match of S\d+ at or after from, 0 when there is none
LabelStart(s, from) ==
    LET m == {i \in from..(Len(s) - 1) : Ch(s, i) = "S" /\ IsDigit(Ch(s, i + 1))}
    IN  IF m = {} THEN 0 ELSE Min(m)

\* last character of the match of S\d+ that starts at i (\d+ is greedy)
LabelEnd(s, i) ==
    Max({j \in (i + 1)..Len(s) : \A k \in (i + 1)..j : IsDigit(Ch(s, k))})

\* re.split(r"(S\d+)", s)[1:], from position from on: label, text, label, text, ...
RECURSIVE SplitLabels(_, _)
SplitLabels(s, from) ==
    LET i == LabelStart(s, from)
    IN  IF i = 0 THEN <<>>
        ELSE LET j == LabelEnd(s, i)
                 n == LabelStart(s, j + 1)
                 e == IF n = 0 THEN Len(s) ELSE n - 1
             IN  <<SubSeq(s, i, j), SubSeq(s, j + 1, e)>> \o SplitLabels(s, j + 1)

\* the terms left in the order of the input
UnsortedTerms(terms) == terms

\* list.sort(key = lambda x: x[0]): stable, ascending
RECURSIVE SortTerms(_)
InsertTerm(t, sorted) ==
    LET after == {i \in 1..Len(sorted) : sorted[i][1] > t[1]}
        at == IF after = {} THEN Len(sorted) + 1 ELSE Min(after)
    IN  SubSeq(sorted, 1, at - 1) \o <<t>> \o SubSeq(sorted, at, Len(sorted))
SortTerms(terms) ==
    IF terms = <<>> THEN <<>>
    ELSE InsertTerm(terms[Len(terms)], SortTerms(SubSeq(terms, 1, Len(terms) - 1)))

\* [int(x.strip()) for x in part.split(",")]
PartitionOf(part) ==
    LET xs == split(part, ",")
    IN  IF \E i \in 1..Len(xs) : IntRaises(xs[i])
        THEN [raised |-> TRUE, value |-> <<>>]
        ELSE [raised |-> FALSE, value |-> [i \in 1..Len(xs) |-> int(xs[i])]]

substring_to_group(s) ==
    LET pieces == SplitLead(s)
    IN  IF Len(pieces) # 3 THEN [raised |-> TRUE, value |-> <<>>]
        ELSE LET lead == pieces[1]
                 s_part_strings == SplitLabels(pieces[2], 1)
                 n == Len(s_part_strings) \div 2
                 s_ints == [k \in 1..n |-> int(removeprefix(s_part_strings[2 * k - 1], "S"))]
                 parts == [k \in 1..n |->
                             removesuffix(removeprefix(strip(s_part_strings[2 * k]), "["), "]")]
                 terms == SortTerms([k \in 1..n |-> <<s_ints[k], parts[k]>>])
                 partitions == [k \in 1..n |-> PartitionOf(terms[k][2])]
             IN  IF \E k \in 1..n : partitions[k].raised
                 THEN [raised |-> TRUE, value |-> <<>>]
                 ELSE [raised |-> FALSE,
                       value |-> <<lead>> \o [k \in 1..n |-> partitions[k].value]]

string_to_encoding(d) ==
    LET split0 == SplitSigns(d)
        stripped == [i \in 1..Len(split0) |-> strip(split0[i])]
        substrings == IF Len(stripped[1]) = 0 THEN Tail(stripped) ELSE <<"+">> \o stripped
        n == Len(substrings) \div 2
        groups == [k \in 1..n |-> substring_to_group(substrings[2 * k])]
    IN  IF Len(substrings) % 2 # 0 \/ \E k \in 1..n : groups[k].raised
        THEN [raised |-> TRUE, value |-> <<>>]
        ELSE [raised |-> FALSE,
              value |-> [k \in 1..n |-> <<substrings[2 * k - 1]>> \o groups[k].value]]

---------------------------------------------------------------------------
(* Text layout engine                                                      *)

\* max(max(partition), 1); max() of an empty list raises
MaxPart(partition) == Max({MaxSeq(partition), 1})

\* the first row of one partition (lines 158-162)
FirstLinePart(partition) ==
    IF Len(partition) = 1 /\ partition[1] = 0 THEN "1"
    ELSE Rep("x", partition[1]) \o Rep(" ", MaxPart(partition) - partition[1])

\* row i (0-based, i >= 1) of partition number j (1-based) (lines 167-170)
LaterLinePart(partition, i, j, separator) ==
    LET spacing == IF j > 1 THEN Rep(" ", Len(separator)) ELSE ""
        part == IF i < Len(partition) THEN partition[i + 1] ELSE 0
    IN  spacing \o Rep("x", part) \o Rep(" ", MaxPart(partition) - part)

\* a margin that leaves out the width of the coefficient
MarginWithoutCoefficient(g, boundary) == "  " \o boundary[1]

\* the left margin of rows 1.. (line 165)
Margin(g, boundary) == "  " \o Rep(" ", Len(g[2])) \o boundary[1]

\* lines[i] for i >= 1 (lines 165-171)
LaterLine(g, i, separator, boundary) ==
    LET partitions == SubSeq(g, 3, Len(g))
    IN  Margin(g, boundary)
        \o join("", [j \in 1..Len(partitions) |->
                        LaterLinePart(partitions[j], i, j, separator)])
        \o boundary[2]

\* the two characters taken from the first group whatever its sign
StripAnySign(g, index, ls) ==
    IF index = 0
    THEN [k \in 1..Len(ls) |-> SubSeq(ls[k], 3, Len(ls[k]))]
    ELSE ls

\* line[2:] when idx == 0 and the sign is "+" (lines 173-174)
StripPlus(g, index, ls) ==
    IF index = 0 /\ g[1] = "+"
    THEN [k \in 1..Len(ls) |-> SubSeq(ls[k], 3, Len(ls[k]))]
    ELSE ls

\* the assertion of line 175
SameWidth(ls) == \A k \in 1..Len(ls) : Len(ls[k]) = Len(ls[1])

group_to_lines(g, index, separator, boundary) ==
    LET partitions == SubSeq(g, 3, Len(g))
    IN  IF partitions = <<>> \/ \E j \in 1..Len(partitions) : partitions[j] = <<>>
        THEN [raised |-> TRUE, value |-> <<>>]
        ELSE LET first == g[1] \o " " \o g[2] \o "("
                          \o join(separator, [j \in 1..Len(partitions) |->
                                                FirstLinePart(partitions[j])])
                          \o ")"
                 height == Max({Len(partitions[j]) : j \in 1..Len(partitions)})
                 all == <<first>> \o [i \in 1..(height - 1) |->
                                        LaterLine(g, i, separator, boundary)]
                 ls == StripPlus(g, index, all)
             IN  IF SameWidth(ls) THEN [raised |-> FALSE, value |-> ls]
                 ELSE [raised |-> TRUE, value |-> <<>>]

\* int(max_width * 0.9) for max_width >= 0 (line 131)
AdjustedWidth(width) == (9 * width) \div 10

\* the comparison made with <= instead of <
FitsOrEqual(c, block, adjusted_width) ==
    SumSeq([k \in 1..Len(c) |-> Len(c[k][1])]) + Len(block[1]) <= adjusted_width

\* the condition of the inner loop of join_lines, given idx < len(line_groups)
\* (line 135)
Fits(c, block, adjusted_width) ==
    SumSeq([k \in 1..Len(c) |-> Len(c[k][1])]) + Len(block[1]) < adjusted_width

\* the string appended to chunk_strings (lines 138-140)
ChunkString(c, nlines) ==
    join("\n", [i \in 1..nlines |-> join(" ", [k \in 1..Len(c) |-> c[k][i]])])

\* the chunk that starts with block number start (1-based), grown by the
\* inner loop (lines 133-137)
RECURSIVE GrowChunk(_, _, _, _)
GrowChunk(blocks, c, next, adjusted_width) ==
    IF next <= Len(blocks) /\ Fits(c, blocks[next], adjusted_width)
    THEN GrowChunk(blocks, Append(c, blocks[next]), next + 1, adjusted_width)
    ELSE c

RECURSIVE ChunkStringsFrom(_, _, _, _)
ChunkStringsFrom(blocks, start, nlines, adjusted_width) ==
    IF start > Len(blocks) THEN <<>>
    ELSE LET c == GrowChunk(blocks, <<blocks[start]>>, start + 1, adjusted_width)
         IN  <<ChunkString(c, nlines)>>
             \o ChunkStringsFrom(blocks, start + Len(c), nlines, adjusted_width)

join_lines(blocks, nlines, width) ==
    join("\n\n", ChunkStringsFrom(blocks, 1, nlines, AdjustedWidth(width)))

\* lines += [" "*len(lines[0])]*(max_lines - len(lines)) (line 188)
PadBlock(ls, nlines) ==
    ls \o [k \in 1..(nlines - Len(ls)) |-> Rep(" ", Len(ls[1]))]

Boundary(isTall) == IF isTall THEN <<"(", ")">> ELSE <<" ", " ">>

\* line_groups of encoding_to_text before the padding (line 185)
LineGroups(enc, separator, isTall) ==
    [k \in 1..Len(enc) |-> group_to_lines(enc[k], k - 1, separator, Boundary(isTall))]

encoding_to_text(enc, separator, width, isTall) ==
    LET blocks == LineGroups(enc, separator, isTall)
    IN  IF enc = <<>> \/ \E k \in 1..Len(enc) : blocks[k].raised
        THEN [raised |-> TRUE, value |-> ""]
        ELSE LET nlines == Max({Len(blocks[k].value) : k \in 1..Len(enc)})
                 padded == [k \in 1..Len(enc) |-> PadBlock(blocks[k].value, nlines)]
             IN  [raised |-> FALSE,
                  value |-> IF width = None
                            THEN ChunkString(padded, nlines)
                            ELSE join_lines(padded, nlines, width)]

---------------------------------------------------------------------------
(* LaTeX renderer                                                          *)

RECURSIVE Positive(_)
Positive(partition) ==
    IF partition = <<>> THEN <<>>
    ELSE (IF Head(partition) > 0 THEN <<Head(partition)>> ELSE <<>>)
         \o Positive(Tail(partition))

partition_to_latex(partition, command, environment) ==
    IF Len(partition) = 1 /\ partition[1] = 0 THEN "1"
    ELSE LET compact_partition == Positive(partition)
             parts == [k \in 1..Len(compact_partition) |->
                         join(" & ", [c \in 1..compact_partition[k] |-> "~"])]
         IN  IF environment
             THEN "\\begin{" \o command \o "} " \o join(" \\\\ ", parts)
                  \o "\\end{" \o command \o "}"
             ELSE "\\" \o command \o "{" \o join(" \\\\ ", parts) \o "}"

\* the text one group adds to output (lines 222-225)
GroupLatex(g, separator, command, environment) ==
    LET partitions == SubSeq(g, 3, Len(g))
    IN  "\n" \o g[1] \o " " \o g[2] \o "\\left("
        \o join(separator, [j \in 1..Len(partitions) |->
                              partition_to_latex(partitions[j], command, environment)])
        \o "\\right) "

\* output = output[1:]; if output[0] == "+": output = output[1:] (lines 226-228)
DropLeadingPlus(out) ==
    IF Ch(out, 1) = "+" THEN SubSeq(out, 2, Len(out)) ELSE out

encoding_to_latex(enc, separator, command, environment) ==
    LET out == join("", [k \in 1..Len(enc) |->
                           GroupLatex(enc[k], separator, command, environment)])
        rest == SubSeq(out, 2, Len(out))
    IN  IF rest = "" THEN [raised |-> TRUE, value |-> ""]
        ELSE [raised |-> FALSE, value |-> strip(DropLeadingPlus(rest))]

---------------------------------------------------------------------------
(* Values of the variables a specification does not use                    *)

ParseIdle == data = "" /\ other = "" /\ encoding = <<>> /\ otherEncoding = <<>>
GroupIdle == substring = "" /\ permuted = "" /\ parsed = <<>> /\ parsedPermuted = <<>>
LinesIdle == group = <<>> /\ lines = <<>>
JoinIdle  == line_groups = <<>> /\ max_lines = 0 /\ chunk = <<>>
             /\ chunk_strings = <<>> /\ emitted = <<>>
MainIdle  == units = <<>> /\ unit = 0 /\ verbose = FALSE /\ reports = <<>>
             /\ crashed = FALSE
ConfigIdle == idx = 0 /\ sep = "" /\ tall = FALSE /\ as_latex = FALSE
              /\ latex_environment = FALSE /\ output = "" /\ max_width = None
configVars == <<idx, sep, tall, as_latex, latex_environment, output, max_width>>

---------------------------------------------------------------------------
(* string_to_encoding on input strings, well formed or not                 *)

MaxPieces == 3

WellFormedPieces == {"2", "S1", "S2", "[1]", "[2,1]", " ", "-"}
Pieces == WellFormedPieces \cup {"[1", "1]"}

\* the strings made of at most n of the pieces
RECURSIVE Concats(_, _)
Concats(n, pieces) ==
    IF n = 0 THEN {""}
    ELSE {""} \cup {p \o s : p \in pieces, s \in Concats(n - 1, pieces)}

ParseInit ==
    /\ pc = "start"
    /\ data \in Concats(MaxPieces, Pieces)
    /\ encoding = <<>>
    /\ other = "" /\ otherEncoding = <<>>
    /\ GroupIdle /\ LinesIdle /\ JoinIdle /\ MainIdle /\ ConfigIdle

Decode ==
    /\ pc = "start"
    /\ encoding' = string_to_encoding(data)
    /\ pc' = "decoded"
    /\ UNCHANGED <<data, other, otherEncoding, groupVars, linesVars, joinVars,
                   mainVars, configVars>>

ParseNext == Decode

ParseSpec == ParseInit /\ [][ParseNext]_vars

---------------------------------------------------------------------------
(* string_to_encoding on an input string written with balanced brackets    *)
(* and on the same string with one more blank outside the brackets         *)

\* position k (the gap after character k) is outside the bracketed lists
OutsideBrackets(s, k) ==
    LET opens == {i \in 1..k : Ch(s, i) = "["}
        closes == {i \in 1..k : Ch(s, i) = "]"}
    IN  opens = {} \/ (closes # {} /\ Max(closes) > Max(opens))

\* position k is inside neither a label S<digits> nor a number
BetweenTokens(s, k) ==
    k = 0 \/ k = Len(s)
    \/ ~(Ch(s, k) = "S" \/ IsDigit(Ch(s, k))) \/ ~IsDigit(Ch(s, k + 1))

InsertBlank(s, k) == SubSeq(s, 1, k) \o " " \o SubSeq(s, k + 1, Len(s))

BlankVariants(s) ==
    {InsertBlank(s, k) : k \in {j \in 0..Len(s) : OutsideBrackets(s, j)
                                                  /\ BetweenTokens(s, j)}}

BlankInit ==
    /\ pc = "start"
    /\ data \in Concats(MaxPieces, WellFormedPieces)
    /\ other \in BlankVariants(data)
    /\ encoding = <<>> /\ otherEncoding = <<>>
    /\ GroupIdle /\ LinesIdle /\ JoinIdle /\ MainIdle /\ ConfigIdle

DecodeBoth ==
    /\ pc = "start"
    /\ encoding' = string_to_encoding(data)
    /\ otherEncoding' = string_to_encoding(other)
    /\ pc' = "decoded"
    /\ UNCHANGED <<data, other, groupVars, linesVars, joinVars, mainVars, configVars>>

BlankNext == DecodeBoth

BlankSpec == BlankInit /\ [][BlankNext]_vars

---------------------------------------------------------------------------
(* substring_to_group on a group body and on a permutation of its labeled  *)
(* partitions                                                              *)

MaxTokens == 2

Leads == {"", "2"}
Labels == {"S1", "S2", "S01"}
PartTexts == {"[1]", "[2,1]", "[0]"}
Gaps == {"", " ", "\n"}

LabeledPartitions == {l \o p : l \in Labels, p \in PartTexts}

TokenLists == UNION {[1..n -> LabeledPartitions] : n \in 1..MaxTokens}

Orderings(n) == {f \in [1..n -> 1..n] : \A i, j \in 1..n : f[i] = f[j] => i = j}

GroupInit ==
    /\ pc = "start"
    /\ \E lead \in Leads, tokens \in TokenLists, gap \in Gaps :
         \E perm \in Orderings(Len(tokens)) :
            /\ substring = lead \o join(gap, tokens)
            /\ permuted = lead \o join(gap, [i \in 1..Len(tokens) |-> tokens[perm[i]]])
    /\ parsed = <<>> /\ parsedPermuted = <<>>
    /\ ParseIdle /\ LinesIdle /\ JoinIdle /\ MainIdle /\ ConfigIdle

ParseGroup ==
    /\ pc = "start"
    /\ parsed' = substring_to_group(substring)
    /\ parsedPermuted' = substring_to_group(permuted)
    /\ pc' = "parsed"
    /\ UNCHANGED <<substring, permuted, parseVars, linesVars, joinVars, mainVars,
                   configVars>>

GroupNext == ParseGroup

GroupSpec == GroupInit /\ [][GroupNext]_vars

---------------------------------------------------------------------------
(* group_to_lines on the groups string_to_encoding can produce             *)

MaxVal == 3
MaxRows == 2

Signs == {"+", "-"}
Coefficients == {"", "12"}
Separators == {", ", ""}
PartitionCounts == {1, 2}

PartitionValues == UNION {[1..n -> 0..MaxVal] : n \in 1..MaxRows}

PartitionLists == UNION {[1..n -> PartitionValues] : n \in PartitionCounts}

LinesInit ==
    /\ pc = "start"
    /\ \E sign \in Signs, lead \in Coefficients, partitions \in PartitionLists :
         group = <<sign, lead>> \o partitions
    /\ idx \in {0, 1}
    /\ sep \in Separators
    /\ tall \in BOOLEAN
    /\ lines = <<>>
    /\ as_latex = FALSE /\ latex_environment = FALSE /\ output = ""
    /\ max_width = None
    /\ ParseIdle /\ GroupIdle /\ JoinIdle /\ MainIdle

GroupToLines ==
    /\ pc = "start"
    /\ lines' = group_to_lines(group, idx, sep, Boundary(tall))
    /\ pc' = "lines"
    /\ UNCHANGED <<group, parseVars, groupVars, joinVars, mainVars, configVars>>

LinesNext == GroupToLines

LinesSpec == LinesInit /\ [][LinesNext]_vars

---------------------------------------------------------------------------
(* encoding_to_text and encoding_to_latex on valid encodings               *)

MaxGroups == 2

\* get_terminal_size((60, 20)): the width when the terminal gives none
TerminalColumns == 60

RenderLeads == {"", "2"}
RenderPartitionLists == {<<<<0>>>>, <<<<1>>>>, <<<<2, 1>>>>, <<<<2, 1>>, <<0>>>>}
RenderGroups ==
    {<<sign, lead>> \o partitions :
        sign \in Signs, lead \in RenderLeads, partitions \in RenderPartitionLists}
RenderEncodings == UNION {[1..n -> RenderGroups] : n \in 1..MaxGroups}
WrapWidths == {10, TerminalColumns}

RenderInit ==
    /\ pc = "start"
    /\ encoding \in RenderEncodings
    /\ sep \in Separators
    /\ as_latex \in BOOLEAN
    /\ IF as_latex
       THEN latex_environment \in BOOLEAN /\ tall = FALSE /\ max_width = None
       ELSE latex_environment = FALSE /\ tall \in BOOLEAN
            /\ max_width \in {None} \cup WrapWidths
    /\ output = "" /\ idx = 0
    /\ data = "" /\ other = "" /\ otherEncoding = <<>>
    /\ GroupIdle /\ LinesIdle /\ JoinIdle /\ MainIdle

RenderText ==
    /\ pc = "start"
    /\ ~as_latex
    /\ output' = encoding_to_text(encoding, sep, max_width, tall)
    /\ pc' = "rendered"
    /\ UNCHANGED <<parseVars, groupVars, linesVars, joinVars, mainVars, idx, sep,
                   tall, as_latex, latex_environment, max_width>>

RenderLatex ==
    /\ pc = "start"
    /\ as_latex
    /\ output' = encoding_to_latex(encoding, sep, "tableau", latex_environment)
    /\ pc' = "rendered"
    /\ UNCHANGED <<parseVars, groupVars, linesVars, joinVars, mainVars, idx, sep,
                   tall, as_latex, latex_environment, max_width>>

RenderNext == RenderText \/ RenderLatex

RenderSpec == RenderInit /\ [][RenderNext]_vars

---------------------------------------------------------------------------
(* join_lines, one step of its loops at a time.  chunk holds the positions *)
(* (0-based, as idx) of the blocks of line_groups it refers to.            *)

MaxBlocks == 3
MaxBlockWidth == 4
MaxWidth == 12

LineCounts == {1, 2}

WidthLists ==
    UNION {[1..n -> 1..MaxBlockWidth] : n \in 1..MaxBlocks}
    \cup {<<10, 10, 10>>, <<11, 11>>}

WrapLimits == 0..MaxWidth \cup {25}

\* a block of nlines lines, each w characters wide
Block(w, nlines) == [i \in 1..nlines |-> Rep("x", w)]

\* the blocks chunk refers to
ChunkBlocks == [k \in 1..Len(chunk) |-> line_groups[chunk[k] + 1]]

JoinInit ==
    /\ pc = "outer"
    /\ max_lines \in LineCounts
    /\ \E widths \in WidthLists :
         line_groups = [k \in 1..Len(widths) |-> Block(widths[k], max_lines)]
    /\ max_width \in WrapLimits
    /\ idx = 0
    /\ chunk = <<>> /\ chunk_strings = <<>> /\ emitted = <<>>
    /\ output = ""
    /\ sep = "" /\ tall = FALSE /\ as_latex = FALSE /\ latex_environment = FALSE
    /\ ParseIdle /\ GroupIdle /\ LinesIdle /\ MainIdle

\* the test of the inner while loop (line 135)
InnerTest ==
    /\ idx < Len(line_groups)
    /\ Fits(ChunkBlocks, line_groups[idx + 1], AdjustedWidth(max_width))

\* a chunk started empty, its first block left to the test of the inner loop
StartEmptyChunk ==
    /\ pc = "outer"
    /\ idx < Len(line_groups)
    /\ chunk' = <<>>
    /\ pc' = "inner"
    /\ UNCHANGED <<idx, line_groups, max_lines, chunk_strings, emitted, output,
                   max_width, sep, tall, as_latex, latex_environment, parseVars,
                   groupVars, linesVars, mainVars>>

\* while idx < len(line_groups): chunk = [line_groups[idx]]; idx += 1
StartChunk ==
    /\ pc = "outer"
    /\ idx < Len(line_groups)
    /\ chunk' = <<idx>>
    /\ idx' = idx + 1
    /\ pc' = "inner"
    /\ UNCHANGED <<line_groups, max_lines, chunk_strings, emitted, output, max_width,
                   sep, tall, as_latex, latex_environment, parseVars, groupVars,
                   linesVars, mainVars>>

\* chunk.append(line_groups[idx]); idx += 1
AppendBlock ==
    /\ pc = "inner"
    /\ InnerTest
    /\ chunk' = Append(chunk, idx)
    /\ idx' = idx + 1
    /\ UNCHANGED <<pc, line_groups, max_lines, chunk_strings, emitted, output,
                   max_width, sep, tall, as_latex, latex_environment, parseVars,
                   groupVars, linesVars, mainVars>>

\* chunk_strings.append(...)
EmitChunk ==
    /\ pc = "inner"
    /\ ~InnerTest
    /\ chunk_strings' = Append(chunk_strings, ChunkString(ChunkBlocks, max_lines))
    /\ emitted' = Append(emitted, chunk)
    /\ pc' = "outer"
    /\ UNCHANGED <<idx, chunk, line_groups, max_lines, output, max_width, sep, tall,
                   as_latex, latex_environment, parseVars, groupVars, linesVars,
                   mainVars>>

\* return "\n\n".join(chunk_strings)
ReturnJoined ==
    /\ pc = "outer"
    /\ ~(idx < Len(line_groups))
    /\ output' = join("\n\n", chunk_strings)
    /\ pc' = "done"
    /\ UNCHANGED <<idx, chunk, chunk_strings, emitted, line_groups, max_lines,
                   max_width, sep, tall, as_latex, latex_environment, parseVars,
                   groupVars, linesVars, mainVars>>

JoinNext == StartChunk \/ AppendBlock \/ EmitChunk \/ ReturnJoined

\* the interpreter runs the loop until it returns
JoinSpec == JoinInit /\ [][JoinNext]_vars /\ WF_vars(JoinNext)

---------------------------------------------------------------------------
(* display_partitions and main's loop over the units of a file (-f, no -o) *)

\* str(list of integers)
StrList(q) == "[" \o join(", ", [k \in 1..Len(q) |-> ToString(q[k])]) \o "]"

\* print(a, b, ...)
PrintArgs(args) == join(" ", args)

UsageExample ==
    "(ex: \"S1[3] S2[1, 1] S3[2, 2] S4[1] - S1[3] S2[0] S3[1, 1] S4[1]\")"

\* [i for i, group in enumerate(encoding) if len(group) == 1] (line 246)
LenOneGroups(enc) ==
    SelectSeq([k \in 1..Len(enc) |-> k - 1], LAMBDA i : Len(enc[i + 1]) = 1)

\* the two lines printed for the invalid groups (lines 247-252)
ZeroLengthReport(empty_groups) ==
    <<PrintArgs(IF Len(empty_groups) = 1
                THEN <<"Invalid Input: zero length", "group", "at", "index",
                       ToString(empty_groups[1])>>
                ELSE <<"Invalid Input: zero length", "groups", "at", "indices",
                       StrList(empty_groups)>>),
      UsageExample>>

\* the exception raised again whatever verbose is
RaisesAlways(isVerbose) == TRUE

\* if verbose: raise (lines 240-241 and 280-281)
ReRaises(isVerbose) == isVerbose

\* the rendering of display_partitions (lines 255-282), printing to stdout
DisplayEncoding(enc, separator, latex, latex_command, environment, wrapping, isTall, isVerbose) ==
    LET rendered ==
          IF latex
          THEN encoding_to_latex(enc,
                   IF separator = <<>> THEN ",\\, " ELSE separator[1],
                   latex_command, environment)
          ELSE encoding_to_text(enc,
                   IF separator = <<>> THEN ", " ELSE separator[1],
                   IF wrapping THEN TerminalColumns ELSE None, isTall)
    IN  IF rendered.raised
        THEN [printed |-> <<"", "Failed to Display Encoding">>,
              renderer_called |-> TRUE, raised |-> ReRaises(isVerbose)]
        ELSE [printed |-> <<"", rendered.value>>,
              renderer_called |-> TRUE, raised |-> FALSE]

\* display_partitions once string_to_encoding has returned or raised
\* (lines 238-282)
DisplayDecoded(decoded, separator, latex, latex_command, environment, wrapping, isTall, isVerbose) ==
    IF decoded.raised
    THEN [printed |-> <<"Failed to Decode Input String">>,
          renderer_called |-> FALSE, raised |-> ReRaises(isVerbose)]
    ELSE IF LenOneGroups(decoded.value) # <<>>
    THEN [printed |-> ZeroLengthReport(LenOneGroups(decoded.value)),
          renderer_called |-> FALSE, raised |-> FALSE]
    ELSE DisplayEncoding(decoded.value, separator, latex, latex_command,
                         environment, wrapping, isTall, isVerbose)

\* what one call prints, whether it called a renderer and whether an
\* exception left it; separator is <<>> for None and <<s>> for the string s
display_partitions(d, separator, latex, latex_command, environment, wrapping, isTall, isVerbose) ==
    DisplayDecoded(string_to_encoding(d), separator, latex, latex_command,
                   environment, wrapping, isTall, isVerbose)

MaxUnits == 2

SampleUnits ==
    {"S1[2,1] S2[1]", "2S2[0] - S1[1]", "S", "S1[1] - S - 3S", "S1[1", "S1[x]", ""}

MainInit ==
    /\ pc = "loop"
    /\ units \in UNION {[1..n -> SampleUnits] : n \in 1..MaxUnits}
    /\ unit = 0
    /\ verbose \in BOOLEAN
    /\ as_latex \in BOOLEAN
    /\ IF as_latex THEN max_width = None ELSE max_width \in {None, TerminalColumns}
    /\ reports = <<>>
    /\ crashed = FALSE
    /\ sep = <<>> /\ tall = FALSE /\ latex_environment = FALSE
    /\ idx = 0 /\ output = ""
    /\ data = "" /\ encoding = <<>> /\ other = "" /\ otherEncoding = <<>>
    /\ GroupIdle /\ LinesIdle /\ JoinIdle

\* display_partitions(d, ...) up to the end of its first try statement
\* (lines 236-238): string_to_encoding has returned or raised
DecodeUnit ==
    /\ pc = "loop"
    /\ unit < Len(units)
    /\ data' = units[unit + 1]
    /\ encoding' = string_to_encoding(units[unit + 1])
    /\ pc' = "decoded"
    /\ UNCHANGED <<mainVars, other, otherEncoding, groupVars, linesVars, joinVars,
                   configVars>>

\* the rest of display_partitions(d, **kwargs, wrapping=(not args.no_wrap))
\* (line 330)
Displayed ==
    DisplayDecoded(encoding, sep, as_latex, "tableau", latex_environment,
                   max_width # None, tall, verbose)

\* display_partitions returns and the loop goes on to the next unit
DisplayUnit ==
    /\ pc = "decoded"
    /\ \E report \in {Displayed} :
         /\ ~report.raised
         /\ reports' = Append(reports, report)
    /\ unit' = unit + 1
    /\ pc' = "loop"
    /\ UNCHANGED <<units, verbose, crashed, parseVars, groupVars, linesVars,
                   joinVars, configVars>>

\* the exception leaves display_partitions and main: the traceback is
\* printed and the process ends
Traceback ==
    /\ pc = "decoded"
    /\ \E report \in {Displayed} :
         /\ report.raised
         /\ reports' = Append(reports, report)
    /\ crashed' = TRUE
    /\ pc' = "crashed"
    /\ UNCHANGED <<units, unit, verbose, parseVars, groupVars, linesVars, joinVars,
                   configVars>>

\* the loop is over
Exit ==
    /\ pc = "loop"
    /\ unit = Len(units)
    /\ pc' = "exited"
    /\ UNCHANGED <<mainVars, parseVars, groupVars, linesVars, joinVars, configVars>>

MainNext == DecodeUnit \/ DisplayUnit \/ Traceback \/ Exit

MainSpec == MainInit /\ [][MainNext]_vars

---------------------------------------------------------------------------
(* Properties                                                              *)

\* the groups of enc that hold no partition, by 0-based index
GroupsWithoutPartitions(enc) ==
    SelectSeq([k \in 1..Len(enc) |-> k - 1], LAMBDA i : Len(enc[i + 1]) = 2)

\* C1: a unit that decodes into an encoding with a group without partitions
\* gets the 'zero length group' report with the 0-based index of every such
\* group (singular or plural wording), and no renderer is called on it.
EmptyGroupsReported ==
    \A i \in 1..Len(reports) :
        LET decoded == string_to_encoding(units[i])
        IN  (~decoded.raised /\ GroupsWithoutPartitions(decoded.value) # <<>>)
            => /\ reports[i].printed
                    = ZeroLengthReport(GroupsWithoutPartitions(decoded.value))
               /\ ~reports[i].renderer_called

HasLineBreak(s) == \E i \in 1..Len(s) : Ch(s, i) = "\n"

\* the labeled partitions of a body in the order written: <<label, partition>>
BodyTerms(s) ==
    LET sp == SplitLabels(s, 1)
    IN  [k \in 1..(Len(sp) \div 2) |->
            <<int(removeprefix(sp[2 * k - 1], "S")),
              PartitionOf(removesuffix(removeprefix(strip(sp[2 * k]), "["), "]")).value>>]

DistinctLabels(s) ==
    \A a, b \in 1..Len(BodyTerms(s)) :
        a # b => BodyTerms(s)[a][1] # BodyTerms(s)[b][1]

\* result holds the partitions of s in ascending order of their labels
SortedByLabel(s, result) ==
    LET t == BodyTerms(s)
    IN  /\ Len(result) = Len(t) + 1
        /\ \A a \in 1..Len(t) :
              result[1 + Cardinality({b \in 1..Len(t) : t[b][1] < t[a][1]}) + 1] = t[a][2]

\* C2 as stated: any permutation of the labeled partitions of a body parses
\* to the same group.
AnyPermutationSameGroup == pc = "parsed" => parsed = parsedPermuted

\* C2 as amended: for a body without line break whose labels are pairwise
\* distinct integers, every permutation of its labeled partitions parses to
\* the same group, the partitions in ascending order of label.
LabelOrderInvariance ==
    (pc = "parsed" /\ ~HasLineBreak(substring) /\ DistinctLabels(substring))
    => /\ ~parsed.raised
       /\ parsed = parsedPermuted
       /\ SortedByLabel(substring, parsed.value)

LabelOrderWitness ==
    /\ pc = "parsed"
    /\ ~HasLineBreak(substring) /\ DistinctLabels(substring)
    /\ substring # permuted
    /\ ~parsed.raised
    /\ Len(parsed.value) = 3
    /\ parsed.value[2] # parsed.value[3]

\* C3: every line group_to_lines builds for a group has the same length, so
\* its assertion holds and it returns.
LineWidthInvariant ==
    pc = "lines"
    => /\ ~lines.raised
       /\ \A k \in 1..Len(lines.value) : Len(lines.value[k]) = Len(lines.value[1])

LineWidthWitness ==
    /\ pc = "lines"
    /\ ~lines.raised
    /\ Len(lines.value) = 2
    /\ group = <<"+", "12", <<0>>, <<1, 2>>>>
    /\ idx = 0 /\ tall /\ sep = ", "

\* first-line widths of the blocks of line_groups
Widths == [k \in 1..Len(line_groups) |-> Len(line_groups[k][1])]

\* a reference packer on the widths alone: the block after last joins the
\* chunk first..last when 10 * (the widths of first..last+1) < tenfold
RECURSIVE RefChunkEnd(_, _, _, _)
RefChunkEnd(w, first, last, tenfold) ==
    IF last < Len(w) /\ 10 * SumSeq(SubSeq(w, first, last + 1)) < tenfold
    THEN RefChunkEnd(w, first, last + 1, tenfold)
    ELSE last

RECURSIVE RefChunks(_, _, _)
RefChunks(w, first, tenfold) ==
    IF first > Len(w) THEN <<>>
    ELSE LET last == RefChunkEnd(w, first, first, tenfold)
         IN  <<[k \in 1..(last - first + 1) |-> first + k - 2]>>
             \o RefChunks(w, last + 1, tenfold)

\* the widths of the chunk being built plus the width of the next block
WidthWithNext == SumSeq([k \in 1..Len(chunk) |-> Widths[chunk[k] + 1]]) + Widths[idx + 1]

\* C4 as stated: the next block joins the chunk exactly when the widths in
\* the chunk plus its own are below 0.9 x max_width (10 * sum < 9 * max_width),
\* and the chunks are those of the reference packer with that threshold.
GreedyRuleUntruncated ==
    /\ (pc = "inner" /\ idx < Len(line_groups))
       => (ENABLED AppendBlock <=> 10 * WidthWithNext < 9 * max_width)
    /\ pc = "done" => emitted = RefChunks(Widths, 1, 9 * max_width)

\* C4 as amended: the next block joins the chunk exactly when the widths in
\* the chunk plus its own are below int(0.9 x max_width), the product cut to
\* an integer, and the chunks are those of the reference packer with that
\* threshold.
GreedyRuleTruncated ==
    /\ (pc = "inner" /\ idx < Len(line_groups))
       => (ENABLED AppendBlock <=> WidthWithNext < (9 * max_width) \div 10)
    /\ pc = "done" => emitted = RefChunks(Widths, 1, 10 * ((9 * max_width) \div 10))

GreedyRuleWitness ==
    /\ pc = "done"
    /\ Widths = <<10, 10, 10>>
    /\ max_width = 25
    /\ emitted = <<<<0, 1>>, <<2>>>>

\* C5: no row of the text join_lines returns is longer than max_width.
RowsWithinMaxWidth ==
    pc = "done"
    => \A r \in 1..Len(split(output, "\n")) : Len(split(output, "\n")[r]) <= max_width

\* a unit that decodes, with at least one group and at least one partition
\* in every group
ValidUnit(u) ==
    LET decoded == string_to_encoding(u)
    IN  /\ ~decoded.raised
        /\ decoded.value # <<>>
        /\ \A k \in 1..Len(decoded.value) : Len(decoded.value[k]) >= 3

Rendered(report) ==
    /\ report.renderer_called
    /\ ~report.raised
    /\ Len(report.printed) = 2
    /\ report.printed[2] # "Failed to Display Encoding"

Isolated ==
    /\ ~crashed
    /\ pc = "exited" => Len(reports) = Len(units)
    /\ \A i \in 1..Len(reports) : ValidUnit(units[i]) => Rendered(reports[i])

\* C6 as stated: whatever verbose is, a failure on one unit neither ends the
\* process nor keeps a later unit from being processed, and every valid unit
\* is rendered.
FailureIsolation == Isolated

\* C6 as amended: with verbose off, a failure on one unit neither ends the
\* process nor keeps a later unit from being processed, and every valid unit
\* is rendered.
FailureIsolationQuiet == ~verbose => Isolated

FailureIsolationWitness ==
    /\ pc = "exited"
    /\ ~verbose
    /\ Len(units) = 2
    /\ units[1] = "S1[x]"
    /\ reports[1].printed = <<"Failed to Decode Input String">>
    /\ ValidUnit(units[2])
    /\ Rendered(reports[2])

\* the brackets of s do not pair up: a "]" with no "[" open, or a "[" left open
Unbalanced(s) ==
    LET depth(k) == Cardinality({i \in 1..k : Ch(s, i) = "["})
                    - Cardinality({i \in 1..k : Ch(s, i) = "]"})
    IN  depth(Len(s)) # 0 \/ \E k \in 1..Len(s) : depth(k) < 0

\* C7: string_to_encoding raises on an input with an unbalanced bracket.
UnbalancedBracketRaises ==
    (pc = "decoded" /\ Unbalanced(data)) => encoding.raised

\* C8: two inputs that differ by a blank outside the brackets both raise or
\* decode to the same encoding.
BlankInsignificant == pc = "decoded" => encoding = otherEncoding

\* the "+" and "-" of a string, in order
SignGlyphs(s) == SelectSeq([i \in 1..Len(s) |-> Ch(s, i)], LAMBDA c : c \in Signs)

\* the signs an implicit leading plus leaves to show
SignsToShow(enc) ==
    LET signs == [k \in 1..Len(enc) |-> enc[k][1]]
    IN  IF signs[1] = "+" THEN Tail(signs) ELSE signs

\* the lines of the first group as built for a group that is not the first
FirstBlockUnstripped == group_to_lines(encoding[1], 1, sep, Boundary(tall)).value

\* C9: for a first group of sign "+", neither renderer's output begins with
\* "+"; the signs of the later groups and a leading "-" are kept; the text
\* renderer takes exactly "+ " (or the two margin blanks) from every line of
\* the first block.
ImplicitPlusStripped ==
    pc = "rendered"
    => /\ ~output.raised
       /\ SignGlyphs(output.value) = SignsToShow(encoding)
       /\ encoding[1][1] = "+" => Ch(output.value, 1) # "+"
       /\ encoding[1][1] = "-" => Ch(output.value, 1) = "-"
       /\ ~as_latex =>
            \A k \in 1..Len(FirstBlockUnstripped) :
               LET full == FirstBlockUnstripped[k]
                   row == split(output.value, "\n")[k]
               IN  IF encoding[1][1] = "+"
                   THEN /\ SubSeq(full, 1, 2) = (IF k = 1 THEN "+ " ELSE "  ")
                        /\ startswith(row, SubSeq(full, 3, Len(full)))
                        /\ Ch(row, 1) # "+"
                   ELSE startswith(row, full)

ImplicitPlusWitness ==
    /\ pc = "rendered"
    /\ ~as_latex
    /\ Len(encoding) = 2
    /\ encoding[1] = <<"+", "2", <<2, 1>>, <<0>>>>
    /\ encoding[2][1] = "-"
    /\ ~output.raised
    /\ SignGlyphs(output.value) = <<"-">>

RECURSIVE Flatten(_)
Flatten(q) == IF q = <<>> THEN <<>> ELSE Head(q) \o Flatten(Tail(q))

\* every emitted chunk holds a block, and the emitted chunks hold the blocks
\* so far placed once each, in the order of line_groups
Conserved ==
    /\ \A c \in 1..Len(emitted) : emitted[c] # <<>>
    /\ \E n \in 0..Len(line_groups) : Flatten(emitted) = [k \in 1..n |-> k - 1]
    /\ pc = "done" => Flatten(emitted) = [k \in 1..Len(line_groups) |-> k - 1]

\* C10: the packing loop of join_lines ends, every chunk it emits holds at
\* least one block, and the chunks in order hold every block once, in the
\* order given.
ChunkingConserves == <>(pc = "done") /\ []Conserved

ChunkingWitness ==
    /\ pc = "done"
    /\ Len(line_groups) = 3
    /\ max_width = 0
    /\ emitted = <<<<0>>, <<1>>, <<2>>>>

=============================================================================
